---- MODULE Spec2Model ----
(***************************************************************************)
(* Threat-detection relay (src/index.js): POST / forwards an image to an   *)
(* upstream vision API (analyseImage), derives a boolean verdict from the  *)
(* returned description (parseBooleanLike, isThreatDescription) and sends  *)
(* a JSON response carrying three flags and an optional command.           *)
(*                                                                         *)
(* JavaScript values are tagged records.  A JS string is held as the       *)
(* sequence of its lexemes (words and separator characters); Chars gives   *)
(* the character sequence, and the regular expressions of the source run   *)
(* on that character sequence.                                             *)
(***************************************************************************)
EXTENDS Integers, Sequences, FiniteSets, TLC

VARIABLES pc, imageURL, controller, timeoutId, result, hasThreat, sent

vars == <<pc, imageURL, controller, timeoutId, result, hasThreat, sent>>

(***************************************************************************)
(* Bounds of the explored input space.                                     *)
(***************************************************************************)
\* longest free-form text, in words, drawn over the whole vocabulary
MaxWords == 2
\* largest number of filler words put between a negation and a threat term
MaxGap == 7
\* largest number of flag fields on an object-valued upstream result
MaxFlags == 2

(***************************************************************************)
(* Characters and strings.                                                 *)
(***************************************************************************)
\* \w of the regular expressions: ASCII letters, digits and underscore
WordChars ==
    {"a", "b", "c", "d", "e", "f", "g", "h", "i", "j", "k", "l", "m", "n", "o", "p", "q", "r", "s", "t", "u", "v", "w", "x", "y", "z",
     "A", "B", "C", "D", "E", "F", "G", "H", "I", "J", "K", "L", "M", "N", "O", "P", "Q", "R", "S", "T", "U", "V", "W", "X", "Y", "Z",
     "0", "1", "2", "3", "4", "5", "6", "7", "8", "9", "_"}

\* \s of the regular expressions (the whitespace characters used here)
SpaceChars == {" ", "\n"}

\* separator lexemes: whitespace and punctuation characters
Seps == {" ", "\n", ",", "'", "-", "(", ")", "[", "]"}

\* the spelling of every word lexeme, character by character
Spell ==
    "no" :> <<"n", "o">> @@
    "not" :> <<"n", "o", "t">> @@
    "none" :> <<"n", "o", "n", "e">> @@
    "without" :> <<"w", "i", "t", "h", "o", "u", "t">> @@
    "never" :> <<"n", "e", "v", "e", "r">> @@
    "unlikely" :> <<"u", "n", "l", "i", "k", "e", "l", "y">> @@
    "threat" :> <<"t", "h", "r", "e", "a", "t">> @@
    "danger" :> <<"d", "a", "n", "g", "e", "r">> @@
    "weapon" :> <<"w", "e", "a", "p", "o", "n">> @@
    "gun" :> <<"g", "u", "n">> @@
    "knife" :> <<"k", "n", "i", "f", "e">> @@
    "bomb" :> <<"b", "o", "m", "b">> @@
    "explosive" :> <<"e", "x", "p", "l", "o", "s", "i", "v", "e">> @@
    "attack" :> <<"a", "t", "t", "a", "c", "k">> @@
    "violence" :> <<"v", "i", "o", "l", "e", "n", "c", "e">> @@
    "shooting" :> <<"s", "h", "o", "o", "t", "i", "n", "g">> @@
    "stabbing" :> <<"s", "t", "a", "b", "b", "i", "n", "g">> @@
    "hostage" :> <<"h", "o", "s", "t", "a", "g", "e">> @@
    "rifle" :> <<"r", "i", "f", "l", "e">> @@
    "pistol" :> <<"p", "i", "s", "t", "o", "l">> @@
    "explosion" :> <<"e", "x", "p", "l", "o", "s", "i", "o", "n">> @@
    "grenade" :> <<"g", "r", "e", "n", "a", "d", "e">> @@
    "shooter" :> <<"s", "h", "o", "o", "t", "e", "r">> @@
    "risk" :> <<"r", "i", "s", "k">> @@
    "suspicious" :> <<"s", "u", "s", "p", "i", "c", "i", "o", "u", "s">> @@
    "hazard" :> <<"h", "a", "z", "a", "r", "d">> @@
    "unsafe" :> <<"u", "n", "s", "a", "f", "e">> @@
    "detected" :> <<"d", "e", "t", "e", "c", "t", "e", "d">> @@
    "confirmed" :> <<"c", "o", "n", "f", "i", "r", "m", "e", "d">> @@
    "likely" :> <<"l", "i", "k", "e", "l", "y">> @@
    "possible" :> <<"p", "o", "s", "s", "i", "b", "l", "e">> @@
    "probable" :> <<"p", "r", "o", "b", "a", "b", "l", "e">> @@
    "suspected" :> <<"s", "u", "s", "p", "e", "c", "t", "e", "d">> @@
    "observed" :> <<"o", "b", "s", "e", "r", "v", "e", "d">> @@
    "identified" :> <<"i", "d", "e", "n", "t", "i", "f", "i", "e", "d">> @@
    "found" :> <<"f", "o", "u", "n", "d">> @@
    "appear" :> <<"a", "p", "p", "e", "a", "r">> @@
    "appears" :> <<"a", "p", "p", "e", "a", "r", "s">> @@
    "seem" :> <<"s", "e", "e", "m">> @@
    "seems" :> <<"s", "e", "e", "m", "s">> @@
    "may" :> <<"m", "a", "y">> @@
    "might" :> <<"m", "i", "g", "h", "t">> @@
    "possibly" :> <<"p", "o", "s", "s", "i", "b", "l", "y">> @@
    "indicat" :> <<"i", "n", "d", "i", "c", "a", "t">> @@
    "indicates" :> <<"i", "n", "d", "i", "c", "a", "t", "e", "s">> @@
    "indicating" :> <<"i", "n", "d", "i", "c", "a", "t", "i", "n", "g">> @@
    "suggest" :> <<"s", "u", "g", "g", "e", "s", "t">> @@
    "suggests" :> <<"s", "u", "g", "g", "e", "s", "t", "s">> @@
    "suggesting" :> <<"s", "u", "g", "g", "e", "s", "t", "i", "n", "g">> @@
    "look" :> <<"l", "o", "o", "k">> @@
    "looks" :> <<"l", "o", "o", "k", "s">> @@
    "true" :> <<"t", "r", "u", "e">> @@
    "yes" :> <<"y", "e", "s">> @@
    "1" :> <<"1">> @@
    "y" :> <<"y">> @@
    "a" :> <<"a">> @@
    "an" :> <<"a", "n">> @@
    "Gun" :> <<"G", "u", "n">> @@
    "NO" :> <<"N", "O">> @@
    "YES" :> <<"Y", "E", "S">> @@
    "shotgun" :> <<"s", "h", "o", "t", "g", "u", "n">> @@
    "nothing" :> <<"n", "o", "t", "h", "i", "n", "g">> @@
    "isn" :> <<"i", "s", "n">> @@
    "t" :> <<"t">> @@
    "n" :> <<"n">> @@
    "I" :> <<"I">> @@
    "see" :> <<"s", "e", "e">> @@
    "here" :> <<"h", "e", "r", "e">> @@
    "There" :> <<"T", "h", "e", "r", "e">> @@
    "is" :> <<"i", "s">> @@
    "in" :> <<"i", "n">> @@
    "the" :> <<"t", "h", "e">> @@
    "photo" :> <<"p", "h", "o", "t", "o">> @@
    "This" :> <<"T", "h", "i", "s">> @@
    "and" :> <<"a", "n", "d">> @@
    "was" :> <<"w", "a", "s">> @@
    "pattern" :> <<"p", "a", "t", "t", "e", "r", "n">> @@
    "Could" :> <<"C", "o", "u", "l", "d">> @@
    "analyse" :> <<"a", "n", "a", "l", "y", "s", "e">> @@
    "image" :> <<"i", "m", "a", "g", "e">> @@
    "reach" :> <<"r", "e", "a", "c", "h">> @@
    "Gemini" :> <<"G", "e", "m", "i", "n", "i">> @@
    "timeout" :> <<"t", "i", "m", "e", "o", "u", "t">> @@
    "device" :> <<"d", "e", "v", "i", "c", "e">> @@
    "false" :> <<"f", "a", "l", "s", "e">> @@
    "null" :> <<"n", "u", "l", "l">> @@
    "undefined" :> <<"u", "n", "d", "e", "f", "i", "n", "e", "d">> @@
    "object" :> <<"o", "b", "j", "e", "c", "t">> @@
    "Object" :> <<"O", "b", "j", "e", "c", "t">> @@
    "0" :> <<"0">> @@
    "2" :> <<"2">> @@
    "5" :> <<"5">>

RECURSIVE Chars(_)
\* the characters of a string given as its lexemes
Chars(toks) ==
    IF toks = <<>> THEN <<>>
    ELSE (IF Head(toks) \in Seps THEN <<Head(toks)>> ELSE Spell[Head(toks)])
         \o Chars(Tail(toks))

\* String.prototype.toLowerCase, one character
toLowerCaseChar(c) ==
    CASE c = "A" -> "a"
      [] c = "B" -> "b"
      [] c = "C" -> "c"
      [] c = "D" -> "d"
      [] c = "E" -> "e"
      [] c = "F" -> "f"
      [] c = "G" -> "g"
      [] c = "H" -> "h"
      [] c = "I" -> "i"
      [] c = "J" -> "j"
      [] c = "K" -> "k"
      [] c = "L" -> "l"
      [] c = "M" -> "m"
      [] c = "N" -> "n"
      [] c = "O" -> "o"
      [] c = "P" -> "p"
      [] c = "Q" -> "q"
      [] c = "R" -> "r"
      [] c = "S" -> "s"
      [] c = "T" -> "t"
      [] c = "U" -> "u"
      [] c = "V" -> "v"
      [] c = "W" -> "w"
      [] c = "X" -> "x"
      [] c = "Y" -> "y"
      [] c = "Z" -> "z"
      [] OTHER -> c

\* String.prototype.toLowerCase
toLowerCase(s) == [i \in 1..Len(s) |-> toLowerCaseChar(s[i])]

RECURSIVE TrimLeft(_)
TrimLeft(s) ==
    IF s # <<>> /\ Head(s) \in SpaceChars THEN TrimLeft(Tail(s)) ELSE s

RECURSIVE TrimRight(_)
TrimRight(s) ==
    IF s # <<>> /\ s[Len(s)] \in SpaceChars
    THEN TrimRight(SubSeq(s, 1, Len(s) - 1)) ELSE s

\* String.prototype.trim
trim(s) == TrimRight(TrimLeft(s))

(***************************************************************************)
(* JavaScript values (the JSON values an upstream body can carry).         *)
(***************************************************************************)
Undefined == [t |-> "undefined"]

Null == [t |-> "null"]

Bool(b) == [t |-> "boolean", b |-> b]

Num(n) == [t |-> "number", n |-> n]

\* a string, by its lexemes
Str(toks) == [t |-> "string", s |-> toks]

\* an object, by the function from its own property names to their values
Obj(fields) == [t |-> "object", f |-> fields]

\* !val
Falsy(val) ==
    \/ val.t \in {"undefined", "null"}
    \/ val.t = "boolean" /\ ~val.b
    \/ val.t = "number" /\ val.n = 0
    \/ val.t = "string" /\ val.s = <<>>

\* String(val) throws a TypeError: an object parsed from JSON whose own
\* property toString shadows Object.prototype.toString with a non-callable
StringThrows(val) == val.t = "object" /\ "toString" \in DOMAIN val.f

\* String(val), as characters
String(val) ==
    CASE val.t = "string" -> Chars(val.s)
      [] val.t = "number" -> Spell[ToString(val.n)]
      [] val.t = "boolean" -> IF val.b THEN Spell["true"] ELSE Spell["false"]
      [] val.t = "null" -> Spell["null"]
      [] val.t = "undefined" -> Spell["undefined"]
      [] OTHER -> <<"[">> \o Spell["object"] \o <<" ">> \o Spell["Object"] \o <<"]">>

(***************************************************************************)
(* Regular-expression matching on character sequences.  A position p in    *)
(* 0..Len(s) lies between the characters s[p] and s[p+1].                  *)
(***************************************************************************)
IsWordAt(s, i) == i \in 1..Len(s) /\ s[i] \in WordChars

\* \b at position p
WordBoundary(s, p) == IsWordAt(s, p) # IsWordAt(s, p + 1)

\* the literal lit matches at position p
LitAt(s, p, lit) ==
    /\ p + Len(lit) <= Len(s)
    /\ \A k \in 1..Len(lit) : s[p + k] = lit[k]

\* (l1|l2|...) at position p: the positions at which a match can end
AltEnds(s, p, lits) == {p + Len(l) : l \in {x \in lits : LitAt(s, p, x)}}

\* (l1|l2|...) matches somewhere in s, the two \b left out
SubstringTest(s, lits) ==
    \E p \in 0..Len(s) : AltEnds(s, p, lits) # {}

\* \b(l1|l2|...)\b matches somewhere in s
WholeWordTest(s, lits) ==
    \E p \in 0..Len(s) :
        /\ WordBoundary(s, p)
        /\ \E e \in AltEnds(s, p, lits) : WordBoundary(s, e)

RECURSIVE SkipSpace(_, _)
\* the end of the longest run of \s starting at position p
SkipSpace(s, p) ==
    IF p < Len(s) /\ s[p + 1] \in SpaceChars THEN SkipSpace(s, p + 1) ELSE p

RECURSIVE SkipWord(_, _)
\* the end of the longest run of \w starting at position p
SkipWord(s, p) ==
    IF p < Len(s) /\ s[p + 1] \in WordChars THEN SkipWord(s, p + 1) ELSE p

\* one (?:\s+\w+) starting at p: the positions at which it can end.  \w+ has
\* to start right after the whole whitespace run, and can stop after any of
\* the word characters that follow.
GroupEnds(s, p) ==
    LET m == SkipSpace(s, p)
    IN  IF m = p THEN {} ELSE (m + 1)..SkipWord(s, m)

RECURSIVE RepeatEnds(_, _, _)
\* (?:\s+\w+){0,k} starting at any position of P
RepeatEnds(s, P, k) ==
    IF k = 0 \/ P = {} THEN P
    ELSE P \cup RepeatEnds(s, UNION {GroupEnds(s, p) : p \in P}, k - 1)

(***************************************************************************)
(* isThreatDescription                                                     *)
(***************************************************************************)
\* a window one word shorter, {0,5}
NegationWindowShort == 6 - 1

\* a window one word longer, {0,7}
NegationWindowLong == 6 + 1

\* the bound of the negation window, {0,6}
NegationWindow == 6

NegationLits ==
    {Spell["no"], Spell["not"], Spell["none"], Spell["without"],
     Spell["never"], Spell["unlikely"], <<"n", "'", "t">>}

ThreatLits ==
    {Spell[w] : w \in {"threat", "danger", "weapon", "gun", "knife", "bomb",
                       "explosive", "attack", "violence", "shooting",
                       "stabbing", "hostage"}}

StrongLits ==
    {Spell[w] : w \in {"weapon", "gun", "knife", "bomb", "explosive", "rifle",
                       "pistol", "shooting", "stabbing", "hostage",
                       "explosion", "grenade", "shooter"}}

WeakLits ==
    {Spell[w] : w \in {"threat", "danger", "risk", "suspicious", "hazard",
                       "unsafe"}}

\* the alternatives of certaintyRegex, with appears?, seems?, looks?,
\* indicat(?:es|ing)? and suggest(?:s|ing)? written out
CertaintyLits ==
    {Spell[w] : w \in {"detected", "confirmed", "likely", "possible",
                       "probable", "suspected", "observed", "identified",
                       "found", "appear", "appears", "seem", "seems", "may",
                       "might", "possibly", "indicat", "indicates",
                       "indicating", "suggest", "suggests", "suggesting",
                       "look", "looks"}}
    \cup {Spell["detected"] \o <<" ">> \o Spell["a"],
          Spell["detected"] \o <<" ">> \o Spell["an"]}

\* negationRegex.test(s)
negationRegex(s) ==
    \E p \in 0..Len(s) :
        /\ WordBoundary(s, p)
        /\ \E q \in AltEnds(s, p, NegationLits) :
            /\ WordBoundary(s, q)
            /\ \E r \in RepeatEnds(s, {q}, NegationWindow) :
                \E b \in r..SkipSpace(s, r) :
                    /\ WordBoundary(s, b)
                    /\ \E e \in AltEnds(s, b, ThreatLits) : WordBoundary(s, e)

\* strongRegex.test(s)
strongRegex(s) == WholeWordTest(s, StrongLits)

\* weakRegex.test(s)
weakRegex(s) == WholeWordTest(s, WeakLits)

\* certaintyRegex.test(s)
certaintyRegex(s) == WholeWordTest(s, CertaintyLits)

\* isThreatDescription(text) throws (String(text) does)
isThreatDescriptionThrows(text) == ~Falsy(text) /\ StringThrows(text)

\* the value isThreatDescription(text) returns
isThreatDescription(text) ==
    IF Falsy(text) THEN FALSE
    ELSE LET lower == toLowerCase(String(text))
         IN  IF negationRegex(lower) THEN FALSE
             ELSE IF strongRegex(lower) THEN TRUE
             ELSE IF weakRegex(lower) /\ certaintyRegex(lower) THEN TRUE
             ELSE FALSE

(***************************************************************************)
(* parseBooleanLike                                                        *)
(***************************************************************************)
BooleanLits == {Spell["true"], Spell["yes"], Spell["1"], Spell["y"]}

\* parseBooleanLike(val) throws (String(val) does)
parseBooleanLikeThrows(val) ==
    /\ val.t \notin {"boolean", "number"}
    /\ ~Falsy(val)
    /\ StringThrows(val)

\* the value parseBooleanLike(val) returns
parseBooleanLike(val) ==
    IF val.t = "boolean" THEN val.b
    ELSE IF val.t = "number" THEN val.n # 0
    ELSE IF Falsy(val) THEN FALSE
    ELSE trim(toLowerCase(String(val))) \in BooleanLits

(***************************************************************************)
(* Property access on parsed JSON.                                         *)
(***************************************************************************)
\* a JSON array
Arr(elems) == [t |-> "array", a |-> elems]

\* v.k throws a TypeError
PropThrows(v) == v.t \in {"null", "undefined"}

\* Object.prototype.hasOwnProperty.call(v, k), for the names used here
OwnProps(v) == IF v.t = "object" THEN DOMAIN v.f ELSE {}

\* v[k] for a property name k
Prop(v, k) ==
    IF k \in OwnProps(v) THEN v.f[k]
    ELSE IF v.t = "array" /\ k = "length" THEN Num(Len(v.a))
    ELSE Undefined

\* v[0]
Elem0(v) == IF v.t = "array" /\ Len(v.a) > 0 THEN v.a[1] ELSE Undefined

(***************************************************************************)
(* analyseImage, from the parsed upstream body to the returned value.      *)
(***************************************************************************)
FallbackText == <<"Could", " ", "not", " ", "analyse", " ", "image">>

TimeoutText ==
    <<"Could", " ", "not", " ", "reach", " ", "Gemini", " ", "(", "timeout", ")">>

\* the candidate looked at, result.candidates[0]
Candidate(body) == Elem0(Prop(body, "candidates"))

\* result.candidates && result.candidates.length
HasCandidates(body) ==
    /\ ~Falsy(Prop(body, "candidates"))
    /\ ~Falsy(Prop(Prop(body, "candidates"), "length"))

\* candidate.content && candidate.content['parts'] && ...['parts'].length
HasParts(body) ==
    LET content == Prop(Candidate(body), "content")
    IN  /\ ~Falsy(content)
        /\ ~Falsy(Prop(content, "parts"))
        /\ ~Falsy(Prop(Prop(content, "parts"), "length"))

\* a TypeError is thrown while the body is inspected
ExtractThrows(body) ==
    \/ PropThrows(body)
    \/ HasCandidates(body) /\ PropThrows(Candidate(body))
    \/ /\ HasCandidates(body)
       /\ ~PropThrows(Candidate(body))
       /\ HasParts(body)
       /\ PropThrows(Elem0(Prop(Prop(Candidate(body), "content"), "parts")))

\* the value analyseImage returns for a parsed body
Extract(body) ==
    IF HasCandidates(body) /\ HasParts(body)
    THEN Prop(Elem0(Prop(Prop(Candidate(body), "content"), "parts")), "text")
    ELSE Str(FallbackText)

(***************************************************************************)
(* The POST handler, from the awaited result to the response.              *)
(***************************************************************************)
possibleFlags == <<"hasThreat", "isThreat", "alert", "threat", "danger">>

RECURSIVE ScanFlagsNoBreak(_, _)
\* the loop without its break: the last flag present decides
ScanFlagsNoBreak(res, flags) ==
    IF flags = <<>> THEN "false"
    ELSE LET rest == ScanFlagsNoBreak(res, Tail(flags))
             later == \E i \in 2..Len(flags) : flags[i] \in OwnProps(res)
         IN  IF Head(flags) \notin OwnProps(res) THEN rest
             ELSE IF parseBooleanLikeThrows(res.f[Head(flags)]) THEN "throw"
             ELSE IF later THEN rest
             ELSE IF parseBooleanLike(res.f[Head(flags)]) THEN "true"
             ELSE "false"

RECURSIVE ScanFlags(_, _)
\* the loop over possibleFlags: "true" when it breaks on a true flag,
\* "false" when it runs to the end, "throw" when parseBooleanLike throws
ScanFlags(res, flags) ==
    IF flags = <<>> THEN "false"
    ELSE IF Head(flags) \in OwnProps(res)
         THEN IF parseBooleanLikeThrows(res.f[Head(flags)]) THEN "throw"
              ELSE IF parseBooleanLike(res.f[Head(flags)]) THEN "true"
              ELSE ScanFlags(res, Tail(flags))
         ELSE ScanFlags(res, Tail(flags))

\* result || "Could not analyse image"
Description(res) == IF Falsy(res) THEN Str(FallbackText) ELSE res

\* the verdict when a flag that is present rules out the textual analysis
VerdictFlagsFirst(res) ==
    IF res.t \in {"object", "array"}
    THEN LET scan == ScanFlags(res, possibleFlags)
             d == Prop(res, "description")
         IN  IF scan = "throw" THEN FALSE
             ELSE IF scan = "true" THEN TRUE
             ELSE IF \E i \in 1..Len(possibleFlags) :
                        possibleFlags[i] \in OwnProps(res)
                  THEN FALSE
             ELSE IF ~Falsy(d)
                  THEN IF isThreatDescriptionThrows(d) THEN FALSE
                       ELSE isThreatDescription(d)
                  ELSE FALSE
    ELSE IF isThreatDescriptionThrows(Description(res)) THEN FALSE
         ELSE isThreatDescription(Description(res))

\* hasThreat after the try/catch
Verdict(res) ==
    IF res.t \in {"object", "array"}
    THEN LET scan == ScanFlags(res, possibleFlags)
             d == Prop(res, "description")
         IN  IF scan = "throw" THEN FALSE
             ELSE IF scan = "true" THEN TRUE
             ELSE IF ~Falsy(d)
                  THEN IF isThreatDescriptionThrows(d) THEN FALSE
                       ELSE isThreatDescription(d)
                  ELSE FALSE
    ELSE IF isThreatDescriptionThrows(Description(res)) THEN FALSE
         ELSE isThreatDescription(Description(res))

ThreatCommand ==
    [type |-> "THREAT_ALERT", action |-> "activate_audio_alert",
     severity |-> "high",
     message |-> "Threat detected. Activating audio alert."]

\* the payload with the command attached whatever the verdict
ResponseAlwaysCommand(res, verdict) ==
    [description |-> Description(res), hasThreat |-> verdict,
     isThreat |-> verdict, alert |-> verdict, command |-> ThreatCommand]

\* the JSON payload handed to res.json
Response(res, verdict) ==
    LET base == [description |-> Description(res), hasThreat |-> verdict,
                 isThreat |-> verdict, alert |-> verdict]
    IN  IF verdict THEN base @@ [command |-> ThreatCommand] ELSE base

(***************************************************************************)
(* Inputs.                                                                 *)
(***************************************************************************)
\* words of the free-form texts
ShortVocab ==
    {"no", "NO", "gun", "Gun", "threat", "attack", "rifle", "risk", "found",
     "look", "possible", "a", "shotgun", "nothing", "isn", "t", "n"}

\* what stands between two words of a free-form text
Joiners == {<<" ">>, <<",">>, <<"'">>}

RECURSIVE TextsOf(_)
\* the texts of exactly n words
TextsOf(n) ==
    IF n = 1 THEN {<<w>> : w \in ShortVocab}
    ELSE {x \o j \o <<w>> : x \in TextsOf(n - 1), j \in Joiners, w \in ShortVocab}

ShortTexts == {<<>>} \cup UNION {TextsOf(n) : n \in 1..MaxWords}

\* the ways a negation is written at the start of a windowed text
NegationForms ==
    {<<"no">>, <<"NO">>, <<"never">>, <<"nothing">>,
     <<"isn", "'", "t">>, <<"n", "'", "t">>}

RECURSIVE Gap(_, _, _)
\* k filler words, each preceded by a space, and a final space; the p-th of
\* these k+1 separators (none for p = 0) is a comma and a space instead
Gap(k, p, i) ==
    IF i > k + 1 THEN <<>>
    ELSE (IF i = p THEN <<",", " ">> ELSE <<" ">>)
         \o (IF i <= k THEN <<"a">> ELSE <<>>)
         \o Gap(k, p, i + 1)

WindowTexts ==
    {neg \o Gap(k[1], k[2], 1) \o <<th>> \o post :
        neg \in NegationForms,
        k \in {x \in (0..MaxGap) \X (0..(MaxGap + 1)) : x[2] <= x[1] + 1},
        th \in {"gun", "threat", "attack", "rifle", "shotgun"},
        post \in {<<>>, <<" ", "found">>}}

\* the texts of the documented examples
ExampleTexts ==
    {<<"I", " ", "see", " ", "no", " ", "weapon", " ", "here">>,
     <<"There", " ", "is", " ", "a", " ", "gun", " ", "in", " ", "the", " ", "photo">>,
     <<"This", " ", "looks", " ", "suspicious", " ", "and", " ", "a", " ",
       "threat", " ", "was", " ", "detected">>,
     <<"This", " ", "is", " ", "a", " ", "suspicious", " ", "pattern">>,
     <<"explosive", " ", "device", " ", "identified">>,
     FallbackText, TimeoutText}

\* the texts the classifier is applied to
Texts == ShortTexts \cup WindowTexts \cup ExampleTexts

\* the values of a flag field
FlagVals ==
    {Bool(TRUE), Bool(FALSE), Num(0), Num(2), Str(<<"YES">>), Str(<<"no">>),
     Null, Obj("toString" :> Num(1))}

\* the values of a description field
DescriptionVals ==
    {Str(<<>>), Str(<<"a">>), Str(<<"no", " ", "gun">>),
     Str(<<"explosive", " ", "device", " ", "identified">>),
     Num(5), Obj("toString" :> Num(1))}

\* the sets of at most MaxFlags flag names
FlagSets == {S \in SUBSET {"hasThreat", "isThreat", "alert", "threat", "danger"} :
                Cardinality(S) <= MaxFlags}

\* objects with flag fields and possibly a description
FlagObjects ==
    UNION {{Obj(fv) : fv \in [S -> FlagVals]} : S \in FlagSets}
    \cup UNION {{Obj(fv @@ ("description" :> d)) :
                    fv \in [S -> FlagVals], d \in DescriptionVals} : S \in FlagSets}

\* the values of parts[0].text
TextVals ==
    {Str(x) : x \in ShortTexts \cup ExampleTexts}
    \cup {Undefined, Null, Num(0), Num(5), Bool(TRUE), Arr(<<>>)}
    \cup FlagObjects

\* a body of the documented shape around a text value
Wrap(v) ==
    Obj("candidates" :>
          Arr(<<Obj("content" :> Obj("parts" :> Arr(<<Obj("text" :> v)>>)))>>))

\* the parsed upstream bodies
Bodies ==
    {Wrap(v) : v \in TextVals}
    \cup {Null, Num(5), Obj(<<>>), Obj("candidates" :> Arr(<<>>)),
          Obj("candidates" :> Arr(<<Null>>)),
          Obj("candidates" :> Arr(<<Obj(<<>>)>>)),
          Obj("candidates" :> Arr(<<Obj("content" :> Obj("parts" :> Arr(<<>>)))>>)),
          Obj("candidates" :> Arr(<<Obj("content" :> Obj("parts" :> Arr(<<Null>>)))>>)),
          Obj("candidates" :> Arr(<<Obj("content" :> Obj("parts" :> Arr(<<Obj(<<>>)>>)))>>))}

\* req.body.imageURL: absent, not a string, a string without a comma, a data URL
ImageURLs == {"missing", "nonString", "noComma", "dataURL"}

(***************************************************************************)
(* The request.                                                            *)
(***************************************************************************)
Init ==
    /\ pc = "idle"
    /\ imageURL = "missing"
    /\ controller = FALSE
    /\ timeoutId = FALSE
    /\ result = Undefined
    /\ hasThreat = FALSE
    /\ sent = <<>>

\* POST / arrives; analyseImage runs up to the await of fetch.  dataURL.split
\* throws on a value that is not a string.
Post(url, hasAbortController) ==
    /\ pc = "idle"
    /\ imageURL' = url
    /\ IF url \in {"missing", "nonString"}
       THEN /\ pc' = "rejected"
            /\ UNCHANGED <<controller, timeoutId>>
       ELSE /\ pc' = "fetching"
            /\ controller' = hasAbortController
            /\ timeoutId' = hasAbortController
    /\ UNCHANGED <<result, hasThreat, sent>>

\* the timer fires: controller.abort(), fetch rejects with an AbortError, the
\* catch maps it to null and analyseImage returns the timeout text
Timeout ==
    /\ pc = "fetching"
    /\ timeoutId
    /\ timeoutId' = FALSE
    /\ result' = Str(TimeoutText)
    /\ pc' = "returned"
    /\ UNCHANGED <<imageURL, controller, hasThreat, sent>>

\* fetch rejects with an error other than AbortError: the catch rethrows
FetchFails ==
    /\ pc = "fetching"
    /\ pc' = "rejected"
    /\ UNCHANGED <<imageURL, controller, timeoutId, result, hasThreat, sent>>

\* fetch resolves with the status line and headers: clearTimeout, then the
\* body is awaited (text() for a non-success status, json() otherwise)
FetchResolves(ok) ==
    /\ pc = "fetching"
    /\ timeoutId' = FALSE
    /\ pc' = IF ok THEN "json" ELSE "text"
    /\ UNCHANGED <<imageURL, controller, result, hasThreat, sent>>

\* response.text() settles (a rejection is caught)
ErrorTextSettles ==
    /\ pc = "text"
    /\ result' = Str(FallbackText)
    /\ pc' = "returned"
    /\ UNCHANGED <<imageURL, controller, timeoutId, hasThreat, sent>>

\* response.json() rejects (unparsable or broken body)
JsonRejects ==
    /\ pc = "json"
    /\ pc' = "rejected"
    /\ UNCHANGED <<imageURL, controller, timeoutId, result, hasThreat, sent>>

\* response.json() resolves with a parsed body
JsonResolves(body) ==
    /\ pc = "json"
    /\ IF ExtractThrows(body)
       THEN pc' = "rejected" /\ UNCHANGED result
       ELSE pc' = "returned" /\ result' = Extract(body)
    /\ UNCHANGED <<imageURL, controller, timeoutId, hasThreat, sent>>

\* the handler continues after await analyseImage and sends the response
Respond ==
    /\ pc = "returned"
    /\ hasThreat' = Verdict(result)
    /\ sent' = <<Response(result, Verdict(result))>>
    /\ pc' = "responded"
    /\ UNCHANGED <<imageURL, controller, timeoutId, result>>

Next ==
    \/ \E url \in ImageURLs, ac \in BOOLEAN : Post(url, ac)
    \/ Timeout
    \/ FetchFails
    \/ \E ok \in BOOLEAN : FetchResolves(ok)
    \/ ErrorTextSettles
    \/ JsonRejects
    \/ \E body \in Bodies : JsonResolves(body)
    \/ Respond

Spec == Init /\ [][Next]_vars

\* the parsed bodies of the requests whose progress is followed
FairBodies ==
    {Wrap(Str(x)) : x \in ExampleTexts \cup TextsOf(1)}
    \cup {Null, Obj(<<>>), Obj("candidates" :> Arr(<<Null>>))}

NextFair ==
    \/ \E url \in ImageURLs, ac \in BOOLEAN : Post(url, ac)
    \/ Timeout
    \/ FetchFails
    \/ \E ok \in BOOLEAN : FetchResolves(ok)
    \/ ErrorTextSettles
    \/ JsonRejects
    \/ \E body \in FairBodies : JsonResolves(body)
    \/ Respond

\* the steps the server itself takes are taken: the timer callback (weak
\* fairness of Timeout) and the continuation of the handler (weak fairness of
\* Respond, which is enabled exactly when pc = "returned" and then leaves that
\* state, written through this enabling condition); the upstream is under no
\* obligation to answer
FairSpec ==
    /\ Init
    /\ [][NextFair]_vars
    /\ WF_vars(Timeout)
    /\ []<>(pc # "returned")

(***************************************************************************)
(* The classifier applied on its own to one input.                         *)
(***************************************************************************)
ClassifyInputs ==
    {Str(x) : x \in Texts} \cup {Null, Undefined, Num(5), Obj("toString" :> Num(1))}

InitClassify ==
    /\ pc = "classify"
    /\ result \in ClassifyInputs
    /\ imageURL = "missing"
    /\ controller = FALSE
    /\ timeoutId = FALSE
    /\ hasThreat = FALSE
    /\ sent = <<>>

Classify ==
    /\ pc = "classify"
    /\ IF isThreatDescriptionThrows(result)
       THEN pc' = "threw" /\ UNCHANGED hasThreat
       ELSE pc' = "classified" /\ hasThreat' = isThreatDescription(result)
    /\ UNCHANGED <<imageURL, controller, timeoutId, result, sent>>

ClassifySpec == InitClassify /\ [][Classify]_vars

(***************************************************************************)
(* The vocabulary of the properties: a text read word by word.  A word is  *)
(* a maximal run of word characters, compared ignoring case.               *)
(***************************************************************************)
\* a word lexeme, lower-cased
Fold(w) ==
    CASE w = "Gun" -> "gun"
      [] w = "NO" -> "no"
      [] w = "YES" -> "yes"
      [] w = "I" -> "i"
      [] w = "There" -> "there"
      [] w = "This" -> "this"
      [] w = "Could" -> "could"
      [] w = "Gemini" -> "gemini"
      [] w = "Object" -> "object"
      [] OTHER -> w

IsWord(x) == x \notin Seps

IsSpace(x) == x \in SpaceChars

\* the lexemes are the words of the text: no two words stand side by side
WellFormed(toks) ==
    \A i \in 1..(Len(toks) - 1) : ~(IsWord(toks[i]) /\ IsWord(toks[i + 1]))

NegationWords == {"no", "not", "none", "without", "never", "unlikely"}

ThreatTerms ==
    {"threat", "danger", "weapon", "gun", "knife", "bomb", "explosive",
     "attack", "violence", "shooting", "stabbing", "hostage"}

StrongKeywords ==
    {"weapon", "gun", "knife", "bomb", "explosive", "rifle", "pistol",
     "shooting", "stabbing", "hostage", "explosion", "grenade", "shooter"}

WeakTerms == {"threat", "danger", "risk", "suspicious", "hazard", "unsafe"}

\* the certainty words as the specification lists them
ListedCertaintyWords ==
    {"detected", "confirmed", "likely", "possible", "probable", "suspected",
     "observed", "identified", "found", "appears", "seems", "may", "might",
     "possibly", "indicates", "indicating", "suggests", "suggesting", "looks"}

\* the listed words and the bare forms appear, seem, look, suggest, indicat
AllCertaintyWords ==
    ListedCertaintyWords \cup {"appear", "seem", "look", "suggest", "indicat"}

\* the hedges of possibility or uncertainty
HedgeWords ==
    {"possible", "possibly", "may", "might", "probable", "seems", "appears"}

\* the text has one of the words W as a whole word
HasWord(toks, W) ==
    \E i \in 1..Len(toks) : IsWord(toks[i]) /\ Fold(toks[i]) \in W

\* a negation word stands at lexeme i
NegationWordAt(toks, i) == IsWord(toks[i]) /\ Fold(toks[i]) \in NegationWords

\* a contracted negation (a word ending in n't) ends at lexeme i
ContractionAt(toks, i) ==
    /\ i >= 3
    /\ toks[i] \in {"t", "T"}
    /\ toks[i - 1] = "'"
    /\ IsWord(toks[i - 2])
    /\ Fold(toks[i - 2]) \in DOMAIN Spell
    /\ Spell[Fold(toks[i - 2])][Len(Spell[Fold(toks[i - 2])])] = "n"

ThreatTermAt(toks, j) == IsWord(toks[j]) /\ Fold(toks[j]) \in ThreatTerms

\* the number of words strictly between the lexemes i and j
WordsBetween(toks, i, j) ==
    Cardinality({k \in (i + 1)..(j - 1) : IsWord(toks[k])})

\* nothing but words and whitespace stands between the lexemes i and j
PlainBetween(toks, i, j) ==
    \A k \in (i + 1)..(j - 1) : IsWord(toks[k]) \/ IsSpace(toks[k])

\* a negation word followed, after at most 6 intervening words, by a threat
\* term
Negated(toks) ==
    \E i, j \in 1..Len(toks) :
        /\ i < j
        /\ NegationWordAt(toks, i)
        /\ ThreatTermAt(toks, j)
        /\ WordsBetween(toks, i, j) <= 6

\* the same with nothing but whitespace and the intervening words between
NegatedPlainly(toks) ==
    \E i, j \in 1..Len(toks) :
        /\ i < j
        /\ NegationWordAt(toks, i)
        /\ ThreatTermAt(toks, j)
        /\ WordsBetween(toks, i, j) <= 6
        /\ PlainBetween(toks, i, j)

\* a contracted negation followed, after at most 6 intervening words and
\* nothing but whitespace besides, by a threat term
ContractionNegated(toks) ==
    \E i, j \in 1..Len(toks) :
        /\ i < j
        /\ ContractionAt(toks, i)
        /\ ThreatTermAt(toks, j)
        /\ WordsBetween(toks, i, j) <= 6
        /\ PlainBetween(toks, i, j)

\* the negation rule as the specification words it: a negation word or a
\* contracted negation, at most 6 intervening words, a threat term
NegationRule(toks) ==
    \E i, j \in 1..Len(toks) :
        /\ i < j
        /\ NegationWordAt(toks, i) \/ ContractionAt(toks, i)
        /\ ThreatTermAt(toks, j)
        /\ WordsBetween(toks, i, j) <= 6

\* every negation is more than 6 intervening words before every threat term
\* that follows it
NegationsFar(toks) ==
    \A i, j \in 1..Len(toks) :
        (/\ i < j
         /\ NegationWordAt(toks, i) \/ ContractionAt(toks, i)
         /\ ThreatTermAt(toks, j))
        => WordsBetween(toks, i, j) > 6

\* the strong-signal and weak-signal rules
SignalRules(toks) ==
    \/ HasWord(toks, StrongKeywords)
    \/ HasWord(toks, WeakTerms) /\ HasWord(toks, AllCertaintyWords)

\* the classifier has been applied to a text
Classified == pc = "classified" /\ result.t = "string" /\ WellFormed(result.s)

(***************************************************************************)
(* Properties of isThreatDescription (ClassifySpec).                       *)
(***************************************************************************)
\* C1, as stated: a text in which a negation word is followed, after 0 to 6
\* intervening words, by a threat term is classified false.
C1_NegationAlwaysWins == Classified /\ Negated(result.s) => ~hasThreat

\* C1, amended: a text in which a negation word is followed by a threat term
\* with nothing between them but whitespace and 0 to 6 intervening words made
\* of word characters is classified false, whatever else the text contains.
C1_PlainNegationWins == Classified /\ NegatedPlainly(result.s) => ~hasThreat

\* C1 witness: a plainly negated text that also carries a strong keyword and a
\* certainty word has been classified false
C1_Witness ==
    /\ Classified
    /\ NegatedPlainly(result.s)
    /\ HasWord(result.s, StrongKeywords)
    /\ HasWord(result.s, AllCertaintyWords)
    /\ ~hasThreat

\* C2, as stated: a text outside the negation rule is classified true exactly
\* when it has a strong keyword, or a weak term and one of the listed
\* certainty words; an empty or null text is classified false.
C2_ListedSignals ==
    /\ Classified /\ ~NegationRule(result.s)
         => (hasThreat <=> \/ HasWord(result.s, StrongKeywords)
                           \/ /\ HasWord(result.s, WeakTerms)
                              /\ HasWord(result.s, ListedCertaintyWords))
    /\ pc = "classified" /\ Falsy(result) => ~hasThreat

\* C2, amended: a text outside the negation rule is classified true exactly
\* when it has a strong keyword as a whole word, or a weak term and a
\* certainty word, the certainty words being the listed ones and the bare forms
\* appear, seem, look, suggest, indicat; an empty or null text is classified
\* false.
C2_Signals ==
    /\ Classified /\ ~NegationRule(result.s)
         => (hasThreat <=> SignalRules(result.s))
    /\ pc = "classified" /\ Falsy(result) => ~hasThreat

\* C2 witness: a text whose only signal is a weak term with a certainty word
\* has been classified true
C2_Witness ==
    /\ Classified
    /\ ~NegationRule(result.s)
    /\ ~HasWord(result.s, StrongKeywords)
    /\ HasWord(result.s, WeakTerms)
    /\ HasWord(result.s, AllCertaintyWords)
    /\ hasThreat

\* C3: when every negation is more than 6 intervening words before every
\* threat term that follows it, the negation rule does not apply: the result
\* is the one of the strong-signal and weak-signal rules.
C3_WindowBound ==
    Classified /\ NegationsFar(result.s) => (hasThreat <=> SignalRules(result.s))

\* C3 witness: a text with a negation word 7 or more words before a strong
\* keyword has been classified true
C3_Witness ==
    /\ Classified
    /\ NegationsFar(result.s)
    /\ \E i, j \in 1..Len(result.s) :
          /\ i < j
          /\ NegationWordAt(result.s, i)
          /\ ThreatTermAt(result.s, j)
          /\ PlainBetween(result.s, i, j)
    /\ HasWord(result.s, StrongKeywords)
    /\ hasThreat

\* C4: a text in which a contracted negation (isn't, don't, ...) is followed,
\* after 0 to 6 intervening words, by a threat term is classified false.
C4_ContractionNegates == Classified /\ ContractionNegated(result.s) => ~hasThreat

(***************************************************************************)
(* Properties of the POST handler (Spec, FairSpec).                        *)
(***************************************************************************)
\* the command object is on the response
HasCommand(r) == "command" \in DOMAIN r

\* a response has been sent
Responded == pc = "responded" /\ Len(sent) = 1

\* C5: in every response sent, hasThreat, isThreat and alert are equal, the
\* command is present exactly when they are true and then has exactly the four
\* fixed fields; for the fallback text the verdict is false, without command.
C5_ResponseShape ==
    \A n \in 1..Len(sent) :
        /\ sent[n].hasThreat = sent[n].isThreat
        /\ sent[n].isThreat = sent[n].alert
        /\ HasCommand(sent[n]) <=> sent[n].hasThreat
        /\ HasCommand(sent[n]) =>
              /\ DOMAIN sent[n].command = {"type", "action", "severity", "message"}
              /\ sent[n].command.type = "THREAT_ALERT"
              /\ sent[n].command.action = "activate_audio_alert"
              /\ sent[n].command.severity = "high"
              /\ sent[n].command.message = "Threat detected. Activating audio alert."
        /\ result = Str(FallbackText) =>
              ~sent[n].hasThreat /\ ~HasCommand(sent[n])

\* C5 witness: a response with the command has been sent
C5_Witness == Responded /\ sent[1].hasThreat /\ HasCommand(sent[1])

\* C6: a description whose only threat indication is a weak term qualified by
\* a hedge of possibility, with no strong keyword, is answered with
\* hasThreat = false and no command.
C6_PossibleIsNoThreat ==
    (/\ Responded
     /\ result.t = "string"
     /\ HasWord(result.s, WeakTerms)
     /\ HasWord(result.s, HedgeWords)
     /\ ~HasWord(result.s, AllCertaintyWords \ HedgeWords)
     /\ ~HasWord(result.s, StrongKeywords))
    => ~sent[1].hasThreat /\ ~HasCommand(sent[1])

\* C7: whatever way the upstream call fails, no error leaves analyseImage or
\* the handler, and the response carries a false verdict and no command.
C7_NoErrorEscapes ==
    /\ pc # "rejected"
    /\ Responded /\ result \in {Str(FallbackText), Str(TimeoutText)}
         => ~sent[1].hasThreat /\ ~HasCommand(sent[1])

\* C8: once the timer is armed, the wait on the upstream exchange ends: the
\* request leaves the awaits of fetch and of the body, however slow the
\* upstream is.
C8_WaitBounded ==
    (pc = "fetching" /\ timeoutId) ~> (pc \in {"returned", "responded", "rejected"})

\* a flag value that is boolean-like true: true, a non-zero number, or one of
\* the strings true, yes, 1, y in any case
BooleanLikeTrue(v) ==
    \/ v.t = "boolean" /\ v.b
    \/ v.t = "number" /\ v.n # 0
    \/ v.t = "string" /\ Len(v.s) = 1 /\ Fold(v.s[1]) \in {"true", "yes", "1", "y"}

\* the positions in possibleFlags of the flags present with a true value
TrueFlags(res) ==
    {i \in 1..Len(possibleFlags) :
        /\ possibleFlags[i] \in OwnProps(res)
        /\ BooleanLikeTrue(res.f[possibleFlags[i]])}

\* the positions of the flags present whose interpretation throws
ThrowingFlags(res) ==
    {i \in 1..Len(possibleFlags) :
        /\ possibleFlags[i] \in OwnProps(res)
        /\ parseBooleanLikeThrows(res.f[possibleFlags[i]])}

\* a flag is found true before any exception
FlagWins(res) ==
    \E i \in TrueFlags(res) : \A x \in ThrowingFlags(res) : i < x

\* an exception is thrown before any flag is found true
FlagThrows(res) ==
    \E x \in ThrowingFlags(res) : \A i \in TrueFlags(res) : x < i

\* the verdict on the description field: false when it is absent or empty or
\* its classification throws, its classification otherwise
DescriptionVerdict(res) ==
    /\ ~Falsy(Prop(res, "description"))
    /\ ~isThreatDescriptionThrows(Prop(res, "description"))
    /\ isThreatDescription(Prop(res, "description"))

SomeFlag(res) == \E i \in 1..Len(possibleFlags) : possibleFlags[i] \in OwnProps(res)

====
